---- MODULE Spec2Model ----
(***************************************************************************)
(* A model of the bad-apple video pipeline: main.py (main, process_frames, *)
(* process_single_frame, init_worker) and ffmpeg.py (extract_video,        *)
(* combine_images).  External programs (ffprobe, ffmpeg) and the image     *)
(* codec are the environment: each invocation ends in one of the outcomes  *)
(* the call site can observe (an exit status, a standard output, files     *)
(* written, an exception).                                                 *)
(***************************************************************************)
EXTENDS Integers, Sequences, FiniteSets, TLC

VARIABLES
    pc,            \* position of the single control flow of main()
    exc,           \* exception propagating out of the with-block ("none" if none)
    args,          \* parsed command line: fps, black_image, white_image
    video,         \* the input video: whether it carries an audio stream
    temp_dir,      \* TRUE while the working directory exists
    files,         \* content of the working directory: file name -> content
    black_image_path, white_image_path,   \* main's locals
    frame_rate,    \* extract_video's local frame_rate
    fps,           \* main's local fps (value returned by extract_video)
    cmds,          \* external tool invocations so far, in order
    black_img, white_img,   \* process_frames' locals
    frame_files,   \* process_frames' sorted list of frame paths
    workers,       \* pool worker processes: state, task, module globals
    queue,         \* submitted calls no worker has taken yet (indices of futures)
    fut,           \* futures: index -> "pending" | "running" | "ok" | "err"
    reported,      \* futures the as_completed loop has consumed
    errors,        \* number of "Error processing a frame" lines printed
    orig,          \* the working directory as process_frames found it
    writers,       \* frame name -> workers that saved to it
    pfResult       \* "none" | "returned" | "raised": how process_frames ended

vars == <<pc, exc, args, video, temp_dir, files, black_image_path,
          white_image_path, frame_rate, fps, cmds, black_img, white_img,
          frame_files, workers, queue, fut, reported, errors, orig, writers,
          pfResult>>

(***************************************************************************)
(* Bounds of the model.                                                    *)
(***************************************************************************)
MaxFrames == 2      \* frames the decode step writes: 0..MaxFrames
Width == 2          \* pixels of one frame (frames are Width x 1)
NumWorkers == 2     \* processes of the pool (os.cpu_count() in the code)

Workers == 1..NumWorkers

(***************************************************************************)
(* Program constants.                                                      *)
(***************************************************************************)
DefaultRate == 30   \* ffmpeg.py line 36
MaxPixel == 255     \* 8-bit channels; main.py line 84

Range(s) == {s[i] : i \in DOMAIN s}

(***************************************************************************)
(* Images and files.  An image is [kind, px]: kind "L" has one-channel     *)
(* pixels <<v>>, kind "RGB" three-channel pixels <<r, g, b>>.  A file that *)
(* the image codec cannot identify has kind "bad"; a file cut short by a   *)
(* failed write has kind "partial"; the audio track has kind "aac".        *)
(***************************************************************************)
NoImg == [kind |-> "none", px |-> <<>>]
BadFile == [kind |-> "bad", px |-> <<>>]
PartialFile == [kind |-> "partial", px |-> <<>>]
AudioFile == [kind |-> "aac", px |-> <<>>]

\* Image.new('RGB', (1, 1), colour)
NewRGB(colour) == [kind |-> "RGB", px |-> <<colour>>]

Readable(f) == f.kind \in {"L", "RGB"}

\* frame_%05d.png, 1-based, for the indices the model uses
FrameNames == <<"frame_00001.png", "frame_00002.png", "frame_00003.png",
                "frame_00004.png">>

\* sorted(glob.glob(join(folder, 'frame_*.png'))): the names of the directory
\* that match the pattern, in lexical order
SortedGlob(dir) == SelectSeq(FrameNames, LAMBDA n : n \in DOMAIN dir)

\* Files outside the working directory that --black_image / --white_image may name.
\* A path in neither directory does not exist.
UserFiles ==
    [p \in {"user_black.png", "user_white.png", "corrupt.png"} |->
        CASE p = "user_black.png" ->
                 [kind |-> "RGB", px |-> [i \in 1..Width |-> <<10 * i, 20, 40>>]]
          [] p = "user_white.png" ->
                 [kind |-> "L", px |-> [i \in 1..Width |-> <<200 + i>>]]
          [] OTHER -> BadFile]

\* Image.open(path): the file's image, or the exception raised
OpenError(dir, path) ==
    IF path \in DOMAIN dir
       THEN (IF Readable(dir[path]) THEN "none" ELSE "UnidentifiedImageError")
       ELSE IF path \in DOMAIN UserFiles
               THEN (IF Readable(UserFiles[path]) THEN "none"
                                                  ELSE "UnidentifiedImageError")
               ELSE "FileNotFoundError"

OpenImage(dir, path) ==
    IF path \in DOMAIN dir THEN dir[path] ELSE UserFiles[path]

\* Image.convert("RGB"): a grey value is copied to the three channels
ConvertRGB(img) ==
    IF img.kind = "RGB" THEN img
    ELSE [kind |-> "RGB",
          px |-> [i \in 1..Len(img.px) |-> <<img.px[i][1], img.px[i][1], img.px[i][1]>>]]

\* Image.convert('L'): ITU-R 601-2 luma of a colour pixel, as the codec's
\* fixed-point transform computes it; a grey image is copied
Luma(p) == (p[1] * 19595 + p[2] * 38470 + p[3] * 7471 + 32768) \div 65536

ConvertL(img) ==
    IF img.kind = "L" THEN img
    ELSE [kind |-> "L", px |-> [i \in 1..Len(img.px) |-> <<Luma(img.px[i])>>]]

\* Image.resize((width, height)) for the two cases the result is exact in:
\* the size is unchanged (a copy), or the source is one pixel (every output
\* pixel is that pixel).  TLC stops on any other case.
Resize(img, n) ==
    CASE Len(img.px) = n -> img
      [] Len(img.px) = 1 -> [kind |-> img.kind, px |-> [i \in 1..n |-> img.px[1]]]

\* one channel of the codec's mask blend: (in1*(255-m) + in2*m) / 255, rounded
Blend8(m, in1, in2) ==
    LET tmp == in1 * (MaxPixel - m) + in2 * m + 128
    IN  ((tmp \div 256) + tmp) \div 256

\* Image.composite(image1, image2, mask): image2 with image1 pasted through mask
CompositeSwapped(image1, image2, mask) ==
    [kind |-> "RGB",
     px |-> [i \in 1..Len(mask.px) |->
               [c \in 1..3 |-> Blend8(mask.px[i][1], image1.px[i][c], image2.px[i][c])]]]

Composite(image1, image2, mask) ==
    [kind |-> "RGB",
     px |-> [i \in 1..Len(mask.px) |->
               [c \in 1..3 |-> Blend8(mask.px[i][1], image2.px[i][c], image1.px[i][c])]]]

\* Image.composite raises ValueError when the three sizes differ
CompositeFails(image1, image2, mask) ==
    Len(image1.px) # Len(mask.px) \/ Len(image2.px) # Len(mask.px)

(***************************************************************************)
(* Frame-rate detection (extract_video, lines 21-36).                      *)
(***************************************************************************)
\* One part of the probe's output split at '/': int() accepts it or not.
Tok(v) == [ok |-> TRUE, v |-> v]
NaN == [ok |-> FALSE, v |-> 0]

\* round(num / den) for den # 0: Python rounds a tie to the even neighbour
PyRound(num, den) ==
    LET n == IF den < 0 THEN -num ELSE num
        d == IF den < 0 THEN -den ELSE den
        q == n \div d
        r == n % d
    IN  IF 2 * r < d THEN q
        ELSE IF 2 * r > d THEN q + 1
        ELSE IF q % 2 = 0 THEN q ELSE q + 1

\* The exception lines 31-33 raise for a probe run, or "none".
\*   status "notfound": the executable cannot be started
\*   status "error":    the probe exits non-zero (check=True)
\*   status "ok":       out is stdout.strip().split('/')
DetectError(p) ==
    CASE p.status = "notfound" -> "FileNotFoundError"
      [] p.status = "error" -> "CalledProcessError"
      [] Len(p.out) # 2 -> "ValueError"
      [] \E i \in 1..2 : ~p.out[i].ok -> "ValueError"
      [] p.out[2].v = 0 -> "ZeroDivisionError"
      [] OTHER -> "none"

DetectedRate(p) == PyRound(p.out[1].v, p.out[2].v)

\* except (CalledProcessError, FileNotFoundError, ValueError)
Caught == {"CalledProcessError", "FileNotFoundError", "ValueError"}

Probe(status, out) == [status |-> status, out |-> out]

(***************************************************************************)
(* Inputs of the runs the model covers.                                    *)
(***************************************************************************)
\* --fps: absent (0, auto-detect), negative, or given
RequestedRates == {-1, 0, 24}

\* what ffprobe can answer
ProbeOutcomes ==
    { Probe("notfound", <<>>), Probe("error", <<>>),
      Probe("ok", <<Tok(24000), Tok(1001)>>), Probe("ok", <<Tok(30), Tok(1)>>),
      Probe("ok", <<Tok(25), Tok(2)>>), Probe("ok", <<Tok(15), Tok(2)>>),
      Probe("ok", <<Tok(1), Tok(3)>>), Probe("ok", <<Tok(1), Tok(2)>>),
      Probe("ok", <<Tok(0), Tok(1)>>), Probe("ok", <<Tok(-30), Tok(1)>>),
      Probe("ok", <<Tok(30), Tok(-1)>>), Probe("ok", <<Tok(0), Tok(0)>>),
      Probe("ok", <<Tok(30), Tok(0)>>), Probe("ok", <<NaN>>),
      Probe("ok", <<Tok(30)>>), Probe("ok", <<Tok(30), NaN>>),
      Probe("ok", <<NaN, Tok(1)>>), Probe("ok", <<Tok(30), Tok(1), Tok(1)>>) }

\* the outcomes the whole-pipeline specification draws from
FewProbeOutcomes ==
    { Probe("notfound", <<>>), Probe("ok", <<Tok(24000), Tok(1001)>>),
      Probe("ok", <<Tok(1), Tok(3)>>), Probe("ok", <<Tok(30), Tok(0)>>) }

\* grey frames of Width pixels, as the decode step writes them (format=gray)
GreyFrame(v) == [kind |-> "L", px |-> [i \in 1..Width |-> <<v>>]]

\* a frame whose pixels run through black, mid grey and white
RampFrame ==
    [kind |-> "L",
     px |-> [i \in 1..Width |-> <<CASE i % 3 = 1 -> 0 [] i % 3 = 2 -> 128
                                    [] OTHER -> MaxPixel>>]]

FrameContents == {GreyFrame(0), GreyFrame(MaxPixel), RampFrame, BadFile}
FewFrameContents == {RampFrame, BadFile}

\* the frame files a decode can leave: frame_00001.png .. frame_0000n.png
FrameSets(contents) ==
    UNION { { [n \in {FrameNames[i] : i \in 1..k} |->
                  c[CHOOSE i \in 1..k : FrameNames[i] = n]] :
              c \in [1..k -> contents] } : k \in 0..MaxFrames }

EmptyDir == [n \in {} |-> NoImg]

\* dir with file name (over)written
WriteFile(dir, name, content) ==
    [n \in DOMAIN dir \cup {name} |-> IF n = name THEN content ELSE dir[n]]

\* one external invocation, as logged in cmds
\* (status: "ok", "error" for a non-zero exit, "notfound"; out: the probe's
\* standard output split at '/')
Cmd(tool, rate, audio, status, out) ==
    [tool |-> tool, rate |-> rate, audio |-> audio, status |-> status, out |-> out]

Invoked(tool) == \E i \in 1..Len(cmds) : cmds[i].tool = tool

NoPool == [w \in Workers |-> [state |-> "none", task |-> 0,
                              worker_black_img |-> NoImg, worker_white_img |-> NoImg]]

(***************************************************************************)
(* main(), lines 62-97.                                                    *)
(***************************************************************************)
pfVars == <<black_img, white_img, frame_files, workers, queue, fut, reported,
            errors, orig, writers, pfResult>>
mainVars == <<args, video, black_image_path, white_image_path>>

\* an exception leaves the with-block: nothing after the raising statement runs
Raise(e) == pc' = "exit_with" /\ exc' = e

InitLocals ==
    /\ exc = "none"
    /\ frame_rate = 0 /\ fps = 0 /\ cmds = <<>>
    /\ black_img = NoImg /\ white_img = NoImg
    /\ frame_files = <<>>
    /\ workers = NoPool
    /\ queue = <<>> /\ fut = <<>> /\ reported = {} /\ errors = 0
    /\ orig = EmptyDir
    /\ writers = [n \in {} |-> {}]
    /\ pfResult = "none"

\* main.py is started: any command line, any input video
Init ==
    /\ pc = "main"
    /\ args \in [fps : {0, 24},
                 black_image : {"", "user_black.png"},
                 white_image : {"", "corrupt.png"}]
    /\ video \in [audio : BOOLEAN]
    /\ temp_dir = FALSE /\ files = EmptyDir
    /\ black_image_path = "" /\ white_image_path = ""
    /\ InitLocals

\* line 72: with tempfile.TemporaryDirectory() as temp_dir
CreateTempDir ==
    /\ pc = "main"
    /\ temp_dir' = TRUE
    /\ files' = EmptyDir
    /\ pc' = "defaults"
    /\ UNCHANGED <<exc, args, video, black_image_path, white_image_path,
                   frame_rate, fps, cmds, pfVars>>

\* lines 75-84: default 1x1 overlays are written into the working directory
SynthesizeDefaults ==
    /\ pc = "defaults"
    /\ black_image_path' = IF args.black_image = "" THEN "black.png"
                                                  ELSE args.black_image
    /\ white_image_path' = IF args.white_image = "" THEN "white.png"
                                                  ELSE args.white_image
    /\ LET d1 == IF args.black_image = ""
                    THEN WriteFile(files, "black.png", NewRGB(<<0, 0, 0>>))
                    ELSE files
       IN  files' = IF args.white_image = ""
                       THEN WriteFile(d1, "white.png",
                                      NewRGB(<<MaxPixel, MaxPixel, MaxPixel>>))
                       ELSE d1
    /\ pc' = "extract_video"
    /\ UNCHANGED <<exc, args, video, temp_dir, frame_rate, fps, cmds, pfVars>>

\* the with-block is left, normally or by an exception: the directory and
\* everything under it is removed
ExitWithLeaky ==
    /\ pc = "exit_with"
    /\ temp_dir' = (exc # "none")
    /\ files' = IF exc = "none" THEN EmptyDir ELSE files
    /\ pc' = "end"
    /\ UNCHANGED <<exc, mainVars, frame_rate, fps, cmds, pfVars>>

ExitWith ==
    /\ pc = "exit_with"
    /\ temp_dir' = FALSE
    /\ files' = EmptyDir
    /\ pc' = "end"
    /\ UNCHANGED <<exc, mainVars, frame_rate, fps, cmds, pfVars>>

(***************************************************************************)
(* extract_video(input_video, output_folder, frame_rate), ffmpeg.py 7-59.  *)
(***************************************************************************)
\* lines 19-21: makedirs(exist_ok=True); the parameter decides on detection
ExtractEntry ==
    /\ pc = "extract_video"
    /\ frame_rate' = args.fps
    /\ pc' = IF args.fps <= 0 THEN "probe" ELSE "decode"
    /\ UNCHANGED <<exc, mainVars, temp_dir, files, fps, cmds, pfVars>>

\* lines 22-36: run the probe, parse num/den, round; the listed exceptions
\* fall back to 30, any other propagates
DetectRate(outcomes) ==
    /\ pc = "probe"
    /\ \E p \in outcomes :
         LET e == DetectError(p)
         IN  /\ cmds' = Append(cmds, Cmd("probe", 0, FALSE, p.status, p.out))
             /\ IF e = "none"
                   THEN frame_rate' = DetectedRate(p) /\ pc' = "decode"
                                                      /\ exc' = exc
                   ELSE IF e \in Caught
                           THEN frame_rate' = DefaultRate /\ pc' = "decode"
                                                          /\ exc' = exc
                           ELSE frame_rate' = frame_rate /\ Raise(e)
    /\ UNCHANGED <<mainVars, temp_dir, files, fps, pfVars>>

\* lines 38-45: decode to grey frames at frame_rate, check=True
Decode(contents) ==
    /\ pc = "decode"
    /\ \/ /\ cmds' = Append(cmds, Cmd("decode", frame_rate, FALSE, "error", <<>>))
          /\ Raise("CalledProcessError")
          /\ files' = files
       \/ \E fs \in FrameSets(contents) :
            /\ cmds' = Append(cmds, Cmd("decode", frame_rate, FALSE, "ok", <<>>))
            /\ files' = [n \in DOMAIN files \cup DOMAIN fs |->
                            IF n \in DOMAIN fs THEN fs[n] ELSE files[n]]
            /\ pc' = "audio"
            /\ exc' = exc
    /\ UNCHANGED <<mainVars, temp_dir, frame_rate, fps, pfVars>>

\* lines 47-59: audio extraction with check=False, then return frame_rate.
\* A source without an audio stream makes the tool fail before it opens its
\* output; a failure on a source with audio may leave a file behind.
ExtractAudioChecked ==
    /\ pc = "audio"
    /\ \E ok \in BOOLEAN, left \in BOOLEAN :
         /\ ok => video.audio /\ left
         /\ left => video.audio
         /\ cmds' = Append(cmds, Cmd("audio", 0, FALSE, IF ok THEN "ok" ELSE "error", <<>>))
         /\ files' = IF left THEN WriteFile(files, "audio.aac", AudioFile) ELSE files
         /\ IF ok THEN fps' = frame_rate /\ pc' = "process_frames" /\ exc' = exc
                  ELSE fps' = fps /\ Raise("CalledProcessError")
    /\ UNCHANGED <<mainVars, temp_dir, frame_rate, pfVars>>

ExtractAudio ==
    /\ pc = "audio"
    /\ \E ok \in BOOLEAN, left \in BOOLEAN :
         /\ ok => video.audio /\ left
         /\ left => video.audio
         /\ cmds' = Append(cmds, Cmd("audio", 0, FALSE, IF ok THEN "ok" ELSE "error", <<>>))
         /\ files' = IF left THEN WriteFile(files, "audio.aac", AudioFile) ELSE files
    /\ fps' = frame_rate
    /\ pc' = "process_frames"
    /\ UNCHANGED <<exc, mainVars, temp_dir, frame_rate, pfVars>>

(***************************************************************************)
(* process_frames(frames_folder, black_image_path, white_image_path),      *)
(* main.py 27-59, with init_worker (13-17) and process_single_frame        *)
(* (20-24) run by the pool's worker processes.                             *)
(***************************************************************************)
outerVars == <<args, video, temp_dir, black_image_path, white_image_path,
               frame_rate, fps, cmds>>

RaiseFromFrames(e) == Raise(e) /\ pfResult' = "raised"

\* lines 36-37: both overlays are opened and converted before anything else
LoadOverlays ==
    /\ pc = "process_frames"
    /\ orig' = files
    /\ LET eb == OpenError(files, black_image_path)
           ew == OpenError(files, white_image_path)
       IN  IF eb # "none"
              THEN RaiseFromFrames(eb) /\ UNCHANGED <<black_img, white_img>>
              ELSE IF ew # "none"
                      THEN /\ RaiseFromFrames(ew)
                           /\ black_img' = ConvertRGB(OpenImage(files, black_image_path))
                           /\ white_img' = white_img
                      ELSE /\ black_img' = ConvertRGB(OpenImage(files, black_image_path))
                           /\ white_img' = ConvertRGB(OpenImage(files, white_image_path))
                           /\ pc' = "glob" /\ exc' = exc /\ pfResult' = pfResult
    /\ UNCHANGED <<outerVars, files, frame_files, workers, queue, fut, reported,
                   errors, writers>>

\* lines 39-42: list the frames; none found: print and return
ListFramesNoReturn ==
    /\ pc = "glob"
    /\ frame_files' = SortedGlob(files)
    /\ pc' = "resize"
    /\ UNCHANGED <<exc, outerVars, files, black_img, white_img, workers, queue,
                   fut, reported, errors, orig, writers, pfResult>>

ListFrames ==
    /\ pc = "glob"
    /\ frame_files' = SortedGlob(files)
    /\ IF SortedGlob(files) = <<>>
          THEN pfResult' = "returned" /\ pc' = "combine"
          ELSE pfResult' = pfResult /\ pc' = "resize"
    /\ UNCHANGED <<exc, outerVars, files, black_img, white_img, workers, queue,
                   fut, reported, errors, orig, writers>>

\* lines 45-48: the first frame's size; both overlays are resized to it
ResizeOverlays ==
    /\ pc = "resize"
    /\ IF frame_files = <<>>
          THEN RaiseFromFrames("IndexError") /\ UNCHANGED <<black_img, white_img>>
          ELSE LET e == OpenError(files, frame_files[1])
               IN  IF e # "none"
                      THEN RaiseFromFrames(e) /\ UNCHANGED <<black_img, white_img>>
                      ELSE LET width == Len(OpenImage(files, frame_files[1]).px)
                           IN  /\ black_img' = Resize(black_img, width)
                               /\ white_img' = Resize(white_img, width)
                               /\ pc' = "pool" /\ exc' = exc
                               /\ pfResult' = pfResult
    /\ UNCHANGED <<outerVars, files, frame_files, workers, queue, fut, reported,
                   errors, orig, writers>>

\* the futures line 53 creates: one per frame path, in list order
SubmittedTwice(paths) ==
    [i \in 1..(2 * Len(paths)) |->
        [path |-> paths[((i - 1) % Len(paths)) + 1], state |-> "pending"]]

Submitted(paths) ==
    [i \in 1..Len(paths) |-> [path |-> paths[i], state |-> "pending"]]

\* lines 51-53: the executor is created with the initializer and its
\* arguments, and every frame is submitted
Submit ==
    /\ pc = "pool"
    /\ fut' = Submitted(frame_files)
    /\ queue' = [i \in 1..Len(Submitted(frame_files)) |-> i]
    /\ workers' = [w \in Workers |-> [state |-> "new", task |-> 0,
                                      worker_black_img |-> NoImg,
                                      worker_white_img |-> NoImg]]
    /\ writers' = [n \in Range(frame_files) |-> {}]
    /\ pc' = "as_completed"
    /\ UNCHANGED <<exc, outerVars, files, black_img, white_img, frame_files,
                   reported, errors, orig, pfResult>>

\* lines 13-17: a worker process runs the initializer once, before any call
InitWorker(w) ==
    /\ workers[w].state = "new"
    /\ workers' = [workers EXCEPT ![w] = [state |-> "idle", task |-> 0,
                                          worker_black_img |-> black_img,
                                          worker_white_img |-> white_img]]
    /\ UNCHANGED <<pc, exc, outerVars, files, black_img, white_img, frame_files,
                   queue, fut, reported, errors, orig, writers, pfResult>>

\* an idle worker takes the oldest submitted call
TakeTask(w) ==
    /\ workers[w].state = "idle"
    /\ queue # <<>>
    /\ workers' = [workers EXCEPT ![w].state = "busy", ![w].task = Head(queue)]
    /\ fut' = [fut EXCEPT ![Head(queue)].state = "running"]
    /\ queue' = Tail(queue)
    /\ UNCHANGED <<pc, exc, outerVars, files, black_img, white_img, frame_files,
                   reported, errors, orig, writers, pfResult>>

\* line 24: the path the composite is saved to
SavePathRenamed(frame_path) == "composited.png"

SavePath(frame_path) == frame_path

\* lines 20-24 in worker w.  Image.open fails on a file the codec cannot
\* identify; Image.composite on sizes that differ; save opens the path for
\* writing, which empties it, and an error while the image is written leaves
\* the file cut short (an error on opening it leaves it as it was).
RunTask(w) ==
    /\ workers[w].state = "busy"
    /\ LET i == workers[w].task
           frame_path == fut[i].path
           me == workers[w]
           done(st) == /\ fut' = [fut EXCEPT ![i].state = st]
                       /\ workers' = [workers EXCEPT ![w].state = "idle",
                                                     ![w].task = 0]
       IN  IF OpenError(files, frame_path) # "none"
              THEN done("err") /\ UNCHANGED <<files, writers>>
              ELSE LET mask == ConvertL(OpenImage(files, frame_path))
                   IN  IF CompositeFails(me.worker_white_img, me.worker_black_img, mask)
                          THEN done("err") /\ UNCHANGED <<files, writers>>
                          ELSE \/ /\ files' = WriteFile(files, SavePath(frame_path),
                                                  Composite(me.worker_white_img,
                                                            me.worker_black_img, mask))
                                  /\ writers' = [writers EXCEPT
                                                   ![frame_path] = @ \cup {w}]
                                  /\ done("ok")
                               \/ /\ files' = WriteFile(files, SavePath(frame_path),
                                                        PartialFile)
                                  /\ writers' = [writers EXCEPT
                                                   ![frame_path] = @ \cup {w}]
                                  /\ done("err")
                               \/ /\ done("err")
                                  /\ UNCHANGED <<files, writers>>
    /\ UNCHANGED <<pc, exc, outerVars, black_img, white_img, frame_files, queue,
                   reported, errors, orig, pfResult>>

\* lines 55-59: the next completed future is consumed; its exception is
\* caught and printed
CollectNoCatch(i) ==
    /\ pc = "as_completed"
    /\ i \in DOMAIN fut
    /\ i \notin reported
    /\ fut[i].state \in {"ok", "err"}
    /\ reported' = reported \cup {i}
    /\ errors' = errors
    /\ IF fut[i].state = "err"
          THEN RaiseFromFrames("Exception")
          ELSE UNCHANGED <<pc, exc, pfResult>>
    /\ UNCHANGED <<outerVars, files, black_img, white_img, frame_files,
                   workers, queue, fut, orig, writers>>

Collect(i) ==
    /\ pc = "as_completed"
    /\ i \in DOMAIN fut
    /\ i \notin reported
    /\ fut[i].state \in {"ok", "err"}
    /\ reported' = reported \cup {i}
    /\ errors' = IF fut[i].state = "err" THEN errors + 1 ELSE errors
    /\ UNCHANGED <<pc, exc, outerVars, files, black_img, white_img, frame_files,
                   workers, queue, fut, orig, writers, pfResult>>

\* as_completed is exhausted once every future has been yielded
ExhaustedEarly == reported # {}

Exhausted == reported = DOMAIN fut

\* the loop ends, the executor's with-block shuts the pool down, and
\* process_frames returns
PoolExit ==
    /\ pc = "as_completed"
    /\ Exhausted
    /\ workers' = [w \in Workers |-> [workers[w] EXCEPT !.state = "exited"]]
    /\ pfResult' = "returned"
    /\ pc' = "combine"
    /\ UNCHANGED <<exc, outerVars, files, black_img, white_img, frame_files,
                   queue, fut, reported, errors, orig, writers>>

(***************************************************************************)
(* combine_images(images_folder, output_video, frame_rate), ffmpeg.py      *)
(* 62-89.                                                                  *)
(***************************************************************************)
\* lines 71-72
HasAudio(dir) == "audio.aac" \in DOMAIN dir

\* lines 74-89: the encode, with the audio input when has_audio, check=True;
\* then main's line 97 and the end of the with-block
Combine ==
    /\ pc = "combine"
    /\ \E ok \in BOOLEAN :
         /\ cmds' = Append(cmds, Cmd("encode", fps, HasAudio(files), IF ok THEN "ok" ELSE "error", <<>>))
         /\ IF ok THEN Raise("none") ELSE Raise("CalledProcessError")
    /\ UNCHANGED <<mainVars, temp_dir, files, frame_rate, fps, pfVars>>

(***************************************************************************)
(* Specifications.                                                         *)
(***************************************************************************)
\* one run of main.py
Next ==
    \/ CreateTempDir
    \/ SynthesizeDefaults
    \/ ExtractEntry
    \/ DetectRate(FewProbeOutcomes)
    \/ Decode(FewFrameContents)
    \/ ExtractAudio
    \/ LoadOverlays
    \/ ListFrames
    \/ ResizeOverlays
    \/ Submit
    \/ \E w \in Workers : InitWorker(w)
    \/ \E w \in Workers : TakeTask(w)
    \/ \E w \in Workers : RunTask(w)
    \/ \E i \in 1..(2 * MaxFrames) : Collect(i)
    \/ PoolExit
    \/ Combine
    \/ ExitWith

Spec == Init /\ [][Next]_vars

\* extract_video called with any requested rate on a fresh output folder
InitExtract ==
    /\ pc = "extract_video"
    /\ args \in [fps : RequestedRates, black_image : {""}, white_image : {""}]
    /\ video \in [audio : BOOLEAN]
    /\ temp_dir = TRUE /\ files = EmptyDir
    /\ black_image_path = "" /\ white_image_path = ""
    /\ InitLocals

NextExtract ==
    \/ ExtractEntry
    \/ DetectRate(ProbeOutcomes)
    \/ Decode(FewFrameContents)
    \/ ExtractAudio

SpecExtract == InitExtract /\ [][NextExtract]_vars

\* process_frames called on a folder of frames with any overlay paths
FrameDirs ==
    { [n \in DOMAIN fs \cup {"black.png", "white.png", "audio.aac"} |->
          CASE n = "black.png" -> NewRGB(<<0, 0, 0>>)
            [] n = "white.png" -> NewRGB(<<MaxPixel, MaxPixel, MaxPixel>>)
            [] n = "audio.aac" -> AudioFile
            [] OTHER -> fs[n]] : fs \in FrameSets(FrameContents) }

\* the defaults main writes, two files of the user's, and a path that cannot
\* be opened in either position
OverlayPaths ==
    { <<"black.png", "white.png">>, <<"user_black.png", "user_white.png">>,
      <<"missing.png", "white.png">>, <<"black.png", "corrupt.png">> }

InitFrames ==
    /\ pc = "process_frames"
    /\ args = [fps |-> 0, black_image |-> "", white_image |-> ""]
    /\ video = [audio |-> TRUE]
    /\ temp_dir = TRUE
    /\ files \in FrameDirs
    /\ \E paths \in OverlayPaths :
          black_image_path = paths[1] /\ white_image_path = paths[2]
    /\ InitLocals

NextFrames ==
    \/ LoadOverlays
    \/ ListFrames
    \/ ResizeOverlays
    \/ Submit
    \/ \E w \in Workers : InitWorker(w)
    \/ \E w \in Workers : TakeTask(w)
    \/ \E w \in Workers : RunTask(w)
    \/ \E i \in 1..(2 * MaxFrames) : Collect(i)
    \/ PoolExit

SpecFrames == InitFrames /\ [][NextFrames]_vars

(***************************************************************************)
(* Properties.                                                             *)
(***************************************************************************)
LastCmd == cmds[Len(cmds)]

Failed == {i \in DOMAIN fut : fut[i].state = "err"}
Succeeded == {i \in DOMAIN fut : fut[i].state = "ok"}
Started == {i \in DOMAIN fut : fut[i].state # "pending"}

\* what a successful unit of work must leave in a frame file, from the folder
\* as process_frames found it and the two overlay paths alone
ExpectedFrame(path) ==
    LET mask == ConvertL(orig[path])
        width == Len(OpenImage(orig, frame_files[1]).px)
        black == Resize(ConvertRGB(OpenImage(orig, black_image_path)), width)
        white == Resize(ConvertRGB(OpenImage(orig, white_image_path)), width)
    IN  [kind |-> "RGB",
         px |-> [p \in 1..Len(mask.px) |->
                   [c \in 1..3 |->
                      Blend8(mask.px[p][1], black.px[p][c], white.px[p][c])]]]

\* C1: once the working directory has been created, a run of main() that has
\* ended, normally or by an exception raised in extract_video, process_frames
\* or combine_images, has removed it; and a run stops nowhere but at its end.
C1_WorkdirRemoved ==
    /\ pc = "end" => ~temp_dir /\ files = EmptyDir
    /\ pc \notin {"main", "end"} => temp_dir
    /\ ~ENABLED Next => pc = "end"

\* a run ended by an exception, after frames were composited
C1_Witness ==
    /\ pc = "end" /\ ~temp_dir
    /\ exc = "CalledProcessError"
    /\ Succeeded # {} /\ Failed # {}

\* a run ended by an exception raised in process_frames
C1_WitnessFrames == pc = "end" /\ ~temp_dir /\ pfResult = "raised"

\* C4: the stages never overlap.  A unit of work has started only after a
\* successful decode and the return of the audio extraction; the encode is
\* invoked only when every dispatched unit has completed (by success or
\* failure) and no worker is busy; after a failed decode no frame is
\* composited and there is no encode.  The external invocations happen in
\* the order probe (optional), decode, audio, encode.
C4_StagesSequential ==
    /\ (Started # {} \/ \E w \in Workers : workers[w].state = "busy")
          => /\ \E j \in 1..Len(cmds) :
                   /\ cmds[j].tool = "decode" /\ cmds[j].status = "ok"
                   /\ j < Len(cmds) /\ cmds[j + 1].tool = "audio"
    /\ Invoked("encode")
          => /\ \A i \in DOMAIN fut : fut[i].state \in {"ok", "err"}
             /\ \A w \in Workers : workers[w].state # "busy"
             /\ queue = <<>>
             /\ pfResult = "returned"
             /\ LastCmd.tool = "encode"
    /\ (\E j \in 1..Len(cmds) : cmds[j].tool = "decode" /\ cmds[j].status # "ok")
          => /\ fut = <<>> /\ workers = NoPool /\ pfResult = "none"
             /\ ~Invoked("encode") /\ ~Invoked("audio")
             /\ \A n \in DOMAIN files : n \notin Range(FrameNames)
    /\ \A j \in 1..Len(cmds) :
          CASE cmds[j].tool = "probe" -> j = 1
            [] cmds[j].tool = "decode" -> j <= 2 /\ (j = 2 => cmds[1].tool = "probe")
            [] cmds[j].tool = "audio" -> j > 1 /\ cmds[j - 1].tool = "decode"
            [] cmds[j].tool = "encode" -> j > 1 /\ cmds[j - 1].tool = "audio"

\* the encode has been invoked after a pool that ran every frame, one failing
C4_Witness ==
    /\ Invoked("encode")
    /\ Len(fut) = MaxFrames
    /\ Failed # {} /\ Succeeded # {}

C5_WitnessAllFail ==
    /\ pfResult = "returned" /\ Len(fut) = MaxFrames
    /\ errors = MaxFrames /\ pc = "combine"

\* C7: the audio extraction raises nothing out of extract_video, so for a
\* source without an audio stream extract_video still returns the frame
\* rate; the encode has the audio input exactly when audio.aac exists in the
\* frames directory, and for a silent source it has no audio input.
C7_SilentSource ==
    /\ (cmds # <<>> /\ LastCmd.tool = "audio")
          => /\ fps = frame_rate
             /\ exc # "none" => pfResult = "raised"
             /\ pc # "exit_with" \/ pfResult = "raised"
             /\ ~video.audio => LastCmd.status = "error"
    /\ (~video.audio /\ temp_dir) => "audio.aac" \notin DOMAIN files
    /\ (cmds # <<>> /\ LastCmd.tool = "encode")
          => /\ ~video.audio => ~LastCmd.audio
             /\ pc = "exit_with" => (LastCmd.audio <=> "audio.aac" \in DOMAIN files)
             /\ LastCmd.rate = frame_rate

\* a silent source run to its end: the audio step failed, the encode ran
\* from the frames alone and succeeded
C7_Witness ==
    /\ ~video.audio
    /\ pc = "end" /\ exc = "none"
    /\ Len(cmds) >= 3
    /\ cmds[Len(cmds) - 1].tool = "audio" /\ cmds[Len(cmds) - 1].status = "error"
    /\ LastCmd.tool = "encode" /\ ~LastCmd.audio /\ LastCmd.status = "ok"
    /\ Succeeded # {}

\* the probe's answer gives no rate: it could not be run, it exited with an
\* error, or its output is not two integers with a non-zero second
DetectionFailed(c) ==
    \/ c.status # "ok"
    \/ Len(c.out) # 2
    \/ \E i \in 1..Len(c.out) : ~c.out[i].ok
    \/ c.out[2].v = 0

\* C2: with requested_rate <= 0, every failure of the frame-rate detection
\* (probe not runnable, probe error, malformed output including a zero
\* denominator) gives frame_rate = 30 and lets the decode run; no exception
\* escapes the detection.
C2_DetectionFallsBack ==
    (args.fps <= 0 /\ cmds # <<>> /\ cmds[1].tool = "probe" /\ DetectionFailed(cmds[1]))
        => /\ frame_rate = DefaultRate
           /\ pc = "decode" \/ Invoked("decode")
           /\ Len(cmds) = 1 => exc = "none" /\ pc # "exit_with"

\* C3: the rate extract_video decodes at and returns is a positive integer:
\* the requested rate when that is > 0, else the rounded num/den or 30.
C3_RatePositive ==
    /\ \A j \in 1..Len(cmds) :
          cmds[j].tool = "decode"
             => /\ cmds[j].rate > 0
                /\ args.fps > 0 => cmds[j].rate = args.fps
                /\ args.fps <= 0 =>
                      cmds[j].rate = IF DetectionFailed(cmds[1]) THEN DefaultRate
                                     ELSE PyRound(cmds[1].out[1].v, cmds[1].out[2].v)
    /\ pc = "process_frames" => fps > 0 /\ fps = frame_rate

\* the folder process_frames was called on held no frame file
EmptyFolder == pc # "process_frames" /\ SortedGlob(orig) = <<>>

OverlaysOpen ==
    /\ OpenError(orig, black_image_path) = "none"
    /\ OpenError(orig, white_image_path) = "none"

\* C8 as stated: on a folder with no frame file process_frames returns
\* without raising, dispatches no unit, starts no pool and writes no file.
C8_EmptyFolderNeverRaises ==
    EmptyFolder =>
        /\ pfResult # "raised"
        /\ fut = <<>> /\ queue = <<>>
        /\ workers = NoPool
        /\ files = orig

\* C8 amended: on a folder with no frame file process_frames dispatches no
\* unit, starts no pool and writes no file; it returns without raising when
\* both overlay images can be opened, and raises the overlay's error when
\* one cannot.
C8_EmptyFolder ==
    EmptyFolder =>
        /\ fut = <<>> /\ queue = <<>>
        /\ workers = NoPool
        /\ files = orig
        /\ \A n \in DOMAIN writers : writers[n] = {}
        /\ OverlaysOpen => pfResult # "raised"
        /\ (OverlaysOpen /\ pc # "glob") => pfResult = "returned" /\ exc = "none"
        /\ ~OverlaysOpen => pfResult = "raised" /\ pc = "exit_with"

\* process_frames has returned from an empty folder
C8_Witness ==
    /\ EmptyFolder /\ OverlaysOpen
    /\ pfResult = "returned" /\ pc = "combine"
    /\ frame_files = <<>>

\* C6 as stated: process_frames changes frame files only in place: the file
\* names are those it found, every frame whose unit failed has its content
\* unchanged, and the audio and overlay files are untouched.
C6_FailedFramesUnchanged ==
    pc # "process_frames" =>
        /\ DOMAIN files = DOMAIN orig
        /\ \A n \in DOMAIN orig \ Range(FrameNames) : files[n] = orig[n]
        /\ \A i \in Failed : files[fut[i].path] = orig[fut[i].path]

\* C6 amended: the file names are those process_frames found, the audio and
\* overlay files are untouched, a frame no unit has completed on is unchanged,
\* and a frame whose unit failed is unchanged unless the failure came while
\* save was writing it, which leaves the file cut short.
C6_InPlace ==
    pc # "process_frames" =>
        /\ DOMAIN files = DOMAIN orig
        /\ \A n \in DOMAIN orig \ Range(FrameNames) : files[n] = orig[n]
        /\ \A n \in Range(FrameNames) \cap DOMAIN orig :
              (\A i \in DOMAIN fut : fut[i].path = n => fut[i].state \notin {"ok", "err"})
                 => files[n] = orig[n]
        /\ \A i \in Failed :
              /\ files[fut[i].path] \in {orig[fut[i].path], PartialFile}
              /\ writers[fut[i].path] = {} => files[fut[i].path] = orig[fut[i].path]
        /\ \A i \in Succeeded : files[fut[i].path].kind = "RGB"

\* process_frames returned; one unit failed in open and left its frame as it
\* was, another succeeded and overwrote its frame
C6_Witness ==
    /\ pfResult = "returned"
    /\ \E i \in Failed : /\ orig[fut[i].path] = BadFile
                         /\ files[fut[i].path] = BadFile
    /\ \E i \in Succeeded : files[fut[i].path] # orig[fut[i].path]

\* C9: each frame file is dispatched as exactly one unit of work and saved
\* by at most one worker, and once process_frames has returned the content of
\* every frame a unit succeeded on is the composite fixed by the folder as
\* found and the two overlays, whichever worker ran it and in whatever order
\* the units completed.
C9_InterleavingIndependent ==
    fut # <<>> =>
        /\ \A n \in Range(frame_files) :
              Cardinality({i \in DOMAIN fut : fut[i].path = n}) = 1
        /\ \A i \in DOMAIN fut : fut[i].path \in Range(frame_files)
        /\ \A n \in DOMAIN writers : Cardinality(writers[n]) <= 1
        /\ \A w \in Workers :
              workers[w].state = "busy" =>
                 \A v \in Workers \ {w} :
                    workers[v].state = "busy" =>
                       fut[workers[v].task].path # fut[workers[w].task].path
        /\ \A i \in Succeeded : files[fut[i].path] = ExpectedFrame(fut[i].path)

\* every frame was composited, the second unit completing on another worker
\* than the first
C9_Witness ==
    /\ pfResult = "returned"
    /\ Len(fut) = MaxFrames /\ Succeeded = DOMAIN fut
    /\ \E n, m \in DOMAIN writers : n # m /\ writers[n] # writers[m]

\* C10: in the frame a successful unit saved, the pixel at each position is
\* the resized black overlay's where the mask is 0 and the resized white
\* overlay's where the mask is 255; so an all-zero mask gives the resized
\* black overlay, an all-255 mask the resized white overlay, and the default
\* 1x1 overlays give pure black and pure white.
C10_MaskSelectsOverlay ==
    \A i \in Succeeded :
        LET path == fut[i].path
            mask == ConvertL(orig[path])
            out == files[path]
        IN  /\ Len(out.px) = Len(mask.px)
            /\ \A p \in 1..Len(mask.px) :
                  /\ mask.px[p][1] = 0 => out.px[p] = black_img.px[p]
                  /\ mask.px[p][1] = MaxPixel => out.px[p] = white_img.px[p]
                  /\ (mask.px[p][1] = 0 /\ black_image_path = "black.png")
                        => out.px[p] = <<0, 0, 0>>
                  /\ (mask.px[p][1] = MaxPixel /\ white_image_path = "white.png")
                        => out.px[p] = <<MaxPixel, MaxPixel, MaxPixel>>
            /\ (\A p \in 1..Len(mask.px) : mask.px[p][1] = 0) => out.px = black_img.px
            /\ (\A p \in 1..Len(mask.px) : mask.px[p][1] = MaxPixel)
                  => out.px = white_img.px

\* an all-zero and an all-255 frame composited against two overlays that are
\* not uniform in colour
C10_Witness ==
    /\ black_image_path = "user_black.png" /\ white_image_path = "user_white.png"
    /\ \E i \in Succeeded : /\ orig[fut[i].path] = GreyFrame(0)
                            /\ files[fut[i].path].px = black_img.px
    /\ \E i \in Succeeded : /\ orig[fut[i].path] = GreyFrame(MaxPixel)
                            /\ files[fut[i].path].px = white_img.px

====
